---------------------------- MODULE Spec2Model ----------------------------
(***************************************************************************)
(* Viewport-driven media tile manager of the two galleries                 *)
(* (components/motion-library.tsx and components/effects-library.tsx).     *)
(*                                                                         *)
(* One behaviour is the life of one gallery component: the shell (open,    *)
(* isVisible, the 300 ms hide timer), its tiles (VideoCard / EffectCard:   *)
(* shouldMount, unmountTimerRef, the browser's pending timeouts, the       *)
(* tile's IntersectionObserver and its queued entries, the <video>), the   *)
(* module-level poster cache and, in the motion gallery, activeAudioId.    *)
(* Every handler runs to completion together with the re-render and the    *)
(* effects it triggers (single-threaded event loop).                       *)
(***************************************************************************)
EXTENDS Integers, Sequences, FiniteSets, TLC

\* ------------------------------------------------------------ bounds
NumTiles == 2
BatchTiles == 1
NumFrames == 2
MaxBatch == 2
MaxTimers == 2
MaxText == 2

\* ------------------------------------------------- program constants
UNMOUNT_DELAY == 500
HIDE_DELAY == 300
EAGER_COUNT == 6

\* The event loop is sampled every half debounce window: a timeout fires at
\* the first sample at or after its delay.
TickMs == UNMOUNT_DELAY \div 2

\* a catalog one entry longer than the eager prefix has a tile that is not eager
GridTiles == EAGER_COUNT + 1

Frames == 1..NumFrames
Slots == 1..MaxTimers
NULL == 0
NoTimer == [left |-> -1, live |-> FALSE]
NoVideo == -1
Loading == 0
Failed == NoVideo - 1
Galleries == {"motion", "effects"}

\* characters of display names and search strings, and the strings over them
Alphabet == {"a", "A", "b", " "}
Texts == UNION {[1..n -> Alphabet] : n \in 0..MaxText}

VARIABLES
    gallery,          \* which component this behaviour is about
    count,            \* catalog: number of entries the catalog supplies
    batch,            \* most entries the observer queues between callbacks
    poster,           \* catalog: whether the descriptor carries its own poster
    names,            \* catalog: display name of each entry
    watch,            \* how many tiles of the grid get observer and video events
    frames,           \* how many different first frames a video may deliver
    searchQuery,      \* effects gallery: the search box's text
    open,             \* the open prop
    isVisible,        \* shell state: grid rendered
    hideTimer,        \* ms left of the shell's hide timeout, -1 when none
    activeAudioId,    \* motion gallery: stored audio focus, NULL or a tile id
    posterCache,      \* module-level Map: tile id -> captured frame (0 absent)
    exists,           \* the tile component instance is mounted in React
    shouldMount,      \* tile state: a <video> element is rendered
    unmountTimerRef,  \* tile ref: NULL or the id of the last timeout set
    timers,           \* browser: pending release timeouts of each tile
    isIntersecting,   \* observer: last intersection state it computed
    entries,          \* observer: entries queued for the next callback
    videoFrame,       \* <video>: NoVideo, Loading, Failed, or the frame it loaded
    muted,            \* <video>: its muted property (TRUE when there is none)
    plays,            \* <video>: play() promises not settled yet, by call site
    calls,            \* parent callbacks invoked by the last step, in order
    firstRender,      \* history: "cold"/"warm" until the first callback, "no"
    flap,             \* history: progress of a near, far, near sequence
    farAge,           \* history: ms since the last far entry, -1 when none
    taps              \* history: the last audio tap, with the tapped id and
                      \* the stored focus before the tap

vars == <<gallery, count, batch, poster, names, watch, frames, searchQuery,
          open, isVisible, hideTimer, activeAudioId,
          posterCache, exists, shouldMount, unmountTimerRef, timers,
          isIntersecting, entries, videoFrame, muted, plays, calls,
          firstRender, flap, farAge, taps>>

shell == <<open, isVisible, hideTimer>>
tileState == <<exists, shouldMount, unmountTimerRef, timers, videoFrame>>
observer == <<isIntersecting, entries>>
catalog == <<gallery, count, batch, poster, names, watch, frames>>
playback == <<muted, plays>>

\* the ids of the catalog's entries
Tiles == 1..count
history == <<firstRender, flap, farAge, taps>>


\* ------------------------------------------------------------ catalog
\* MOTION_VIDEOS / getEffectsForModel(currentModel): tile ids in catalog order.
Catalog == [i \in 1..count |-> i]

\* ------------------------------------------------------------- search
\* String.prototype.toLowerCase over the alphabet
LowerChar(c) == IF c = "A" THEN "a" ELSE c
toLowerCase(str) == [i \in 1..Len(str) |-> LowerChar(str[i])]

\* String.prototype.trim: leading and trailing blanks removed
trim(str) ==
    LET inked == {i \in 1..Len(str) : str[i] # " "}
    IN IF inked = {} THEN <<>>
       ELSE SubSeq(str,
                   CHOOSE i \in inked : \A j \in inked : i <= j,
                   CHOOSE i \in inked : \A j \in inked : i >= j)

\* String.prototype.includes
includes(str, part) ==
    \E i \in 0..(Len(str) - Len(part)) : SubSeq(str, i + 1, i + Len(part)) = part

\* const effectiveSearchQuery = open ? searchQuery : ""
effectiveSearchQuery == IF open THEN searchQuery ELSE <<>>

\* mutant: the filter compares the name as written
MatchesExactCase(t, query) == includes(names[t], toLowerCase(query))

\* (e) => e.name.toLowerCase().includes(query), query = search.toLowerCase()
Matches(t, query) == includes(toLowerCase(names[t]), toLowerCase(query))

\* useMemo: the model's effects, filtered when the trimmed search is not empty;
\* the motion gallery renders MOTION_VIDEOS unfiltered
filteredEffects ==
    IF gallery = "effects" /\ trim(effectiveSearchQuery) # <<>>
    THEN SelectSeq(Catalog, LAMBDA t : Matches(t, effectiveSearchQuery))
    ELSE Catalog

\* the tile is in the rendered list
InCatalog(t) == \E i \in 1..Len(filteredEffects) : filteredEffects[i] = t

\* index of a tile in the rendered list (0-based, as in .map((effect, index)))
IndexOf(t) == (CHOOSE i \in 1..Len(filteredEffects) : filteredEffects[i] = t) - 1

\* mutant: one more tile is created eager
eagerMountSeven(t) ==
    gallery = "effects" /\ InCatalog(t) /\ IndexOf(t) <= EAGER_COUNT

\* <EffectCard eagerMount={index < 6}/>; VideoCard has no eager flag
eagerMount(t) == gallery = "effects" /\ InCatalog(t) /\ IndexOf(t) < EAGER_COUNT

\* ------------------------------------------------------------- render
\* const posterUrl = posterCache.get(id) ?? null
posterUrl(t) == posterCache[t]

\* What the tile's JSX shows: the live <video> when shouldMount (VideoCard
\* gives it poster={posterUrl ?? video.poster}, EffectCard no poster),
\* otherwise the placeholder <div>, whose background image is the cached
\* poster or nothing.
Render(t) ==
    IF shouldMount[t]
    THEN [el |-> "video",
          img |-> IF gallery = "effects" THEN "none"
                  ELSE IF posterUrl(t) # NULL THEN "cache"
                  ELSE IF poster[t] THEN "descriptor"
                  ELSE "none"]
    ELSE [el |-> "div",
          img |-> IF posterUrl(t) # NULL THEN "cache" ELSE "none"]

\* What the tile displays: the video's frames once it has loaded one, until
\* then (and after a failed load) the video's poster image
Shown(t) ==
    IF shouldMount[t] /\ videoFrame[t] \in Frames THEN "frame" ELSE Render(t).img

\* ---------------------------------------------------------- audio focus
\* mutant: the stored focus is passed on while the gallery is closed
effectiveActiveAudioIdUnmasked == activeAudioId

\* const effectiveActiveAudioId = open ? activeAudioId : null
effectiveActiveAudioId == IF open THEN activeAudioId ELSE NULL

\* mutant: the prop compares against null instead of the tile's id
isAudioActiveAnyFocus(t) == effectiveActiveAudioId # NULL

\* isAudioActive={effectiveActiveAudioId === video.id}
isAudioActive(t) == effectiveActiveAudioId = t

\* mutant: the updater always switches to the tapped id
NextFocusNoToggle(prev, videoId) == videoId

\* mutant: the updater clears focus whenever some tile held it
NextFocusClearFirst(prev, videoId) == IF prev # NULL THEN NULL ELSE videoId

\* setActiveAudioId((prev) => (prev === videoId ? null : videoId))
NextFocus(prev, videoId) == IF prev = videoId THEN NULL ELSE videoId

\* ------------------------------------------------------------- timers
Pending(t) == {k \in Slots : timers[t][k].left >= 0}
FreeSlots(t) == Slots \ Pending(t)

\* clearTimeout(id): drops the timeout if it is still pending
clearTimeout(tm, id) ==
    [k \in Slots |-> IF k = id THEN NoTimer ELSE tm[k]]

\* setTimeout(cb, 500): a new pending timeout under a fresh id
setTimeout(tm, id) ==
    [k \in Slots |-> IF k = id THEN [left |-> UNMOUNT_DELAY, live |-> TRUE]
                     ELSE tm[k]]

Min(a, b) == IF a < b THEN a ELSE b
Max(a, b) == IF a > b THEN a ELSE b

\* --------------------------------------------------------- history
\* progress of a near, far, near sequence of received entries; m: the tile
\* was mounted when the entry arrived
FlapStep(s, e, m) ==
    IF e THEN (IF s = "nf" THEN "nfn" ELSE "n")
    ELSE (IF s \in {"n", "nfn"} /\ m THEN "nf" ELSE "idle")

RECURSIVE FlapFold(_, _, _, _, _)
FlapFold(s, es, i, m0, m1) ==
    IF i > Len(es) THEN s
    ELSE FlapFold(FlapStep(s, es[i], IF i = 1 THEN m0 ELSE m1), es, i + 1, m0, m1)

\* age of the last far entry that no near entry followed
FarAgeAfter(es, m0, m1) ==
    LET n == Len(es)
    IN IF ~es[n] /\ (IF n = 1 THEN m0 ELSE m1) THEN 0 ELSE -1

\* ------------------------------------------------------ tile lifecycle
\* mutant: every tile starts with its video mounted
CreatedMountAlways(t) == InCatalog(t)

\* first render of a tile: useState(eagerMount) / useState(false), refs null
CreatedMount(t) == eagerMount(t)

\* unmount cleanup of the observer effect: disconnect, clear the timeout the
\* ref holds; timeouts the ref no longer holds stay pending, their callback
\* now belongs to an unmounted component
CleanupTimers(t) ==
    LET cleared == IF unmountTimerRef[t] # NULL
                   THEN clearTimeout(timers[t], unmountTimerRef[t])
                   ELSE timers[t]
    IN [k \in Slots |-> IF cleared[k].left >= 0
                        THEN [cleared[k] EXCEPT !.live = FALSE]
                        ELSE NoTimer]

\* A render after the shell state or the filtered list changed (tiles are
\* keyed by id): an entry that enters the rendered list gets a fresh tile
\* component, an entry that leaves it has its component unmounted, the
\* others keep their component and its state.
SyncGrid ==
    LET shown(t) == isVisible' /\ InCatalog(t)'
        created(t) == ~exists[t] /\ shown(t)
        destroyed(t) == exists[t] /\ ~shown(t)
        kept(t) == ~created(t) /\ ~destroyed(t)
    IN /\ exists' = [t \in Tiles |-> shown(t)]
       /\ shouldMount' = [t \in Tiles |->
                             IF kept(t) THEN shouldMount[t]
                             ELSE created(t) /\ CreatedMount(t)']
       /\ videoFrame' = [t \in Tiles |->
                            IF kept(t) THEN videoFrame[t]
                            ELSE IF created(t) /\ CreatedMount(t)' THEN Loading
                            ELSE NoVideo]
       /\ unmountTimerRef' = [t \in Tiles |->
                                 IF kept(t) THEN unmountTimerRef[t] ELSE NULL]
       /\ timers' = [t \in Tiles |->
                        IF destroyed(t) THEN CleanupTimers(t) ELSE timers[t]]
       /\ firstRender' = [t \in Tiles |->
                             IF kept(t) THEN firstRender[t]
                             ELSE IF destroyed(t) THEN "no"
                             ELSE IF posterCache[t] # NULL THEN "warm" ELSE "cold"]
       /\ isIntersecting' = [t \in Tiles |->
                                IF kept(t) THEN isIntersecting[t] ELSE "none"]
       /\ entries' = [t \in Tiles |-> IF kept(t) THEN entries[t] ELSE <<>>]
       /\ flap' = [t \in Tiles |-> IF kept(t) THEN flap[t] ELSE "idle"]
       /\ farAge' = [t \in Tiles |-> IF kept(t) THEN farAge[t] ELSE -1]

\* the grid disappears (return null): every tile component unmounts
DestroyGrid ==
    /\ exists' = [t \in Tiles |-> FALSE]
    /\ shouldMount' = [t \in Tiles |-> FALSE]
    /\ videoFrame' = [t \in Tiles |-> NoVideo]
    /\ unmountTimerRef' = [t \in Tiles |-> NULL]
    /\ timers' = [t \in Tiles |-> CleanupTimers(t)]
    /\ firstRender' = [t \in Tiles |-> "no"]
    /\ isIntersecting' = [t \in Tiles |-> "none"]
    /\ entries' = [t \in Tiles |-> <<>>]
    /\ flap' = [t \in Tiles |-> "idle"]
    /\ farAge' = [t \in Tiles |-> -1]

\* ----------------------------------------------------------- playback
\* The muted sync effect of VideoCard, run after a render in which
\* isAudioActive or shouldMount changed: the focus holder's video is unmuted
\* and asked to play, any other mounted video is muted. A new <video> starts
\* muted (its muted attribute); EffectCard has no such effect. Unmounting
\* pauses the video, which settles its play() promises on the detached
\* element. Once the effect has muted a video, an unmuted play request
\* still in flight is no longer tracked: its rejection handler would mute
\* a muted video, and a later unmute makes a request of its own.
EffectRuns(t) == ~shouldMount[t] \/ isAudioActive(t)' # isAudioActive(t)

\* mutant: the effect's else branch does not mute
mutedWhenKept(active, was) == ~active /\ was

\* if (isAudioActive) { vid.muted = false; ... } else { vid.muted = true }
mutedWhen(active, was) == ~active

VideoSync ==
    /\ muted' = [t \in Tiles |->
                    IF ~shouldMount'[t] \/ gallery # "motion" THEN TRUE
                    ELSE IF EffectRuns(t)
                    THEN mutedWhen(isAudioActive(t)', shouldMount[t] /\ muted[t])
                    ELSE muted[t]]
    /\ plays' = [t \in Tiles |->
                    IF ~shouldMount'[t] THEN {}
                    ELSE LET carried == IF shouldMount[t] THEN plays[t] ELSE {}
                         IN IF gallery = "motion" /\ EffectRuns(t)
                            THEN (IF isAudioActive(t)'
                                  THEN carried \cup {"unmute"}
                                  ELSE carried \ {"unmute"})
                            ELSE carried]

\* The promise of handleLoadedData's play() has empty handlers, so when it
\* settles relative to other events makes no difference: it is settled
\* before the next event is handled.
Quiet == \A t \in Tiles : "auto" \notin plays[t]

\* ---------------------------------------------------------------- Init
TypeOK ==
    /\ gallery \in Galleries
    /\ count \in 1..GridTiles
    /\ batch \in 1..MaxBatch
    /\ poster \in [Tiles -> BOOLEAN]
    /\ names \in [Tiles -> Texts]
    /\ watch \in 0..GridTiles
    /\ frames \in 1..NumFrames
    /\ searchQuery \in Texts
    /\ muted \in [Tiles -> BOOLEAN]
    /\ plays \in [Tiles -> SUBSET {"auto", "unmute"}]
    /\ Len(calls) <= 2
    /\ open \in BOOLEAN /\ isVisible \in BOOLEAN
    /\ hideTimer \in -1..HIDE_DELAY
    /\ activeAudioId \in {NULL} \cup Tiles
    /\ posterCache \in [Tiles -> {NULL} \cup Frames]
    /\ exists \in [Tiles -> BOOLEAN]
    /\ shouldMount \in [Tiles -> BOOLEAN]
    /\ unmountTimerRef \in [Tiles -> {NULL} \cup Slots]
    /\ \A t \in Tiles : \A k \in Slots : timers[t][k].left \in -1..UNMOUNT_DELAY
    /\ isIntersecting \in [Tiles -> {"none", "near", "far"}]
    /\ \A t \in Tiles : Len(entries[t]) <= MaxBatch
    /\ videoFrame \in [Tiles -> {NoVideo, Loading, Failed} \cup Frames]
    /\ \A t \in Tiles : (videoFrame[t] # NoVideo) <=> shouldMount[t]
    /\ \A t \in Tiles : shouldMount[t] => exists[t]

InitState ==
    /\ open = FALSE
    /\ isVisible = FALSE
    /\ hideTimer = -1
    /\ activeAudioId = NULL
    /\ posterCache = [t \in Tiles |-> NULL]
    /\ exists = [t \in Tiles |-> FALSE]
    /\ shouldMount = [t \in Tiles |-> FALSE]
    /\ unmountTimerRef = [t \in Tiles |-> NULL]
    /\ timers = [t \in Tiles |-> [k \in Slots |-> NoTimer]]
    /\ isIntersecting = [t \in Tiles |-> "none"]
    /\ entries = [t \in Tiles |-> <<>>]
    /\ videoFrame = [t \in Tiles |-> NoVideo]
    /\ searchQuery = <<>>
    /\ muted = [t \in Tiles |-> TRUE]
    /\ plays = [t \in Tiles |-> {}]
    /\ calls = <<>>
    /\ firstRender = [t \in Tiles |-> "no"]
    /\ flap = [t \in Tiles |-> "idle"]
    /\ farAge = [t \in Tiles |-> -1]
    /\ taps = <<>>

\* the shipped catalogs: no MOTION_VIDEOS entry has a poster, Effect has no
\* such field
\* Grids of BatchTiles tiles are run with observer callbacks that carry up to
\* MaxBatch entries and videos that deliver any of NumFrames first frames;
\* grids of NumTiles tiles with every entry delivered alone and one first
\* frame per video.
Configs == {[count |-> BatchTiles, batch |-> MaxBatch, frames |-> NumFrames],
            [count |-> NumTiles, batch |-> 1, frames |-> 1]}

\* display names: the first two entries "A", the others "b"
GridNames == [t \in Tiles |-> IF t <= 2 THEN <<"A">> ELSE <<"b">>]

Init ==
    /\ gallery \in Galleries
    /\ \E c \in Configs :
          /\ count = c.count /\ batch = c.batch
          /\ watch = c.count /\ frames = c.frames
    /\ poster = [t \in Tiles |-> FALSE]
    /\ names = GridNames
    /\ InitState

\* ------------------------------------------------------------- shell
\* mutant: the effect has no cleanup
CancelHideMissing(timer) == timer

\* cleanup of the [open] effect's previous run: clearTimeout(timer)
CancelHide(timer) == NULL - 1

\* parent sets open = true; the [open] effect clears a pending hide timeout
\* (cleanup of the previous run) and calls setIsVisible(true)
Open ==
    /\ Quiet
    /\ ~open
    /\ open' = TRUE
    /\ hideTimer' = CancelHide(hideTimer)
    /\ isVisible' = TRUE
    /\ UNCHANGED <<catalog, searchQuery, activeAudioId, posterCache, taps>>
    /\ SyncGrid
    /\ VideoSync
    /\ calls' = <<>>

\* mutant: the effect's else branch starts no hide timeout
HideTimeoutNone == NULL - 1

\* const timer = setTimeout(() => setIsVisible(false), 300)
HideTimeout == HIDE_DELAY

\* mutant: closing also clears the stored audio focus
onCloseClearsFocus ==
    IF open
    THEN /\ open' = FALSE
         /\ hideTimer' = HideTimeout
         /\ activeAudioId' = NULL
         /\ UNCHANGED <<isVisible, catalog, searchQuery, posterCache, taps>>
         /\ SyncGrid
         /\ VideoSync
    ELSE UNCHANGED <<shell, catalog, searchQuery, activeAudioId, posterCache,
                     tileState, observer, playback, history>>

\* the parent's onClose handler: setLibraryOpen(false) / CLOSE_LIBRARY; when
\* open was true the [open] effect starts the hide timeout, and the render
\* uses the empty effective search string
onClose ==
    IF open
    THEN /\ open' = FALSE
         /\ hideTimer' = HideTimeout
         /\ UNCHANGED <<isVisible, catalog, searchQuery, activeAudioId,
                        posterCache, taps>>
         /\ SyncGrid
         /\ VideoSync
    ELSE UNCHANGED <<shell, catalog, searchQuery, activeAudioId, posterCache,
                     tileState, observer, playback, history>>

\* parent sets open = false (back button)
Close ==
    /\ Quiet
    /\ open
    /\ onClose
    /\ calls' = <<>>

\* the hide timeout fires: setIsVisible(false), the component returns null
HideTimerFire ==
    /\ Quiet
    /\ hideTimer = 0
    /\ hideTimer' = -1
    /\ isVisible' = FALSE
    /\ DestroyGrid
    /\ UNCHANGED <<open, catalog, searchQuery, activeAudioId, posterCache, taps>>
    /\ VideoSync
    /\ calls' = <<>>

\* typing in the search box of the open effects gallery:
\* onChange={(e) => setSearchQuery(e.target.value)}
SetSearch(text) ==
    /\ Quiet
    /\ gallery = "effects"
    /\ open /\ isVisible
    /\ searchQuery # text
    /\ searchQuery' = text
    /\ UNCHANGED <<shell, catalog, activeAudioId, posterCache, taps>>
    /\ SyncGrid
    /\ VideoSync
    /\ calls' = <<>>

\* ---------------------------------------------------------- observer
\* the browser computes the tile's intersection with the inflated viewport
\* and queues an entry when it differs from the last one (the first
\* computation after observe() always queues one)
Observe(t, near) ==
    /\ Quiet
    /\ exists[t] /\ t <= watch
    /\ isIntersecting[t] # (IF near THEN "near" ELSE "far")
    /\ Len(entries[t]) < batch
    /\ isIntersecting' = [isIntersecting EXCEPT ![t] = IF near THEN "near" ELSE "far"]
    /\ entries' = [entries EXCEPT ![t] = Append(@, near)]
    /\ UNCHANGED <<shell, catalog, searchQuery, activeAudioId, posterCache,
                   tileState, playback, history>>
    /\ calls' = <<>>

\* mutant: mounting a tile unmounts every other tile
HandleEntryEvicting(t, entry) ==
    IF entry
    THEN /\ timers' = [timers EXCEPT ![t] =
                          IF unmountTimerRef[t] # NULL
                          THEN clearTimeout(@, unmountTimerRef[t]) ELSE @]
         /\ unmountTimerRef' = [unmountTimerRef EXCEPT ![t] = NULL]
         /\ shouldMount' = [u \in Tiles |-> u = t]
         /\ videoFrame' = [u \in Tiles |->
                              IF u # t THEN NoVideo
                              ELSE IF shouldMount[t] THEN videoFrame[t] ELSE Loading]
    ELSE /\ FreeSlots(t) # {}
         /\ LET id == CHOOSE k \in FreeSlots(t) : \A j \in FreeSlots(t) : k <= j
            IN /\ timers' = [timers EXCEPT ![t] = setTimeout(@, id)]
               /\ unmountTimerRef' = [unmountTimerRef EXCEPT ![t] = id]
         /\ UNCHANGED <<shouldMount, videoFrame>>

\* The tile's branch for one entry: ([entry]) => { if (entry.isIntersecting) ... }
\* near: clear the timeout the ref holds, null the ref, setShouldMount(true)
\* far : unmountTimerRef.current = setTimeout(() => setShouldMount(false), 500)
HandleEntry(t, entry) ==
    IF entry
    THEN /\ timers' = [timers EXCEPT ![t] =
                          IF unmountTimerRef[t] # NULL
                          THEN clearTimeout(@, unmountTimerRef[t]) ELSE @]
         /\ unmountTimerRef' = [unmountTimerRef EXCEPT ![t] = NULL]
         /\ shouldMount' = [shouldMount EXCEPT ![t] = TRUE]
         /\ videoFrame' = [videoFrame EXCEPT ![t] =
                              IF shouldMount[t] THEN @ ELSE Loading]
    ELSE /\ FreeSlots(t) # {}
         /\ LET id == CHOOSE k \in FreeSlots(t) : \A j \in FreeSlots(t) : k <= j
            IN /\ timers' = [timers EXCEPT ![t] = setTimeout(@, id)]
               /\ unmountTimerRef' = [unmountTimerRef EXCEPT ![t] = id]
         /\ UNCHANGED <<shouldMount, videoFrame>>

\* the observer callback runs with the queued batch; the handler destructures
\* the first entry only
ObserverCallback(t) ==
    /\ Quiet
    /\ exists[t]
    /\ entries[t] # <<>>
    /\ HandleEntry(t, Head(entries[t]))
    /\ entries' = [entries EXCEPT ![t] = <<>>]
    /\ firstRender' = [firstRender EXCEPT ![t] = "no"]
    /\ flap' = [flap EXCEPT ![t] =
                   FlapFold(@, entries[t], 1, shouldMount[t], shouldMount'[t])]
    /\ farAge' = [farAge EXCEPT ![t] =
                     FarAgeAfter(entries[t], shouldMount[t], shouldMount'[t])]
    /\ UNCHANGED <<shell, catalog, searchQuery, activeAudioId, posterCache,
                   exists, isIntersecting, taps>>
    /\ VideoSync
    /\ calls' = <<>>

\* ------------------------------------------------------------- timers
\* mutant: the callback of a destroyed component updates the tile that
\* replaced it
CallbackAppliesAlways(t, k) == exists[t]

\* the callback's setShouldMount belongs to the component that set the
\* timeout: it has an effect only while that component is mounted
CallbackApplies(t, k) == timers[t][k].live /\ exists[t]

\* a release timeout fires: () => setShouldMount(false); on an unmounted
\* component the state update is dropped
TimerFire(t, k) ==
    /\ Quiet
    /\ timers[t][k].left = 0
    /\ timers' = [timers EXCEPT ![t] = clearTimeout(@, k)]
    /\ IF CallbackApplies(t, k)
       THEN /\ shouldMount' = [shouldMount EXCEPT ![t] = FALSE]
            /\ videoFrame' = [videoFrame EXCEPT ![t] = NoVideo]
            /\ flap' = [flap EXCEPT ![t] = IF @ = "nf" THEN "idle" ELSE @]
            /\ farAge' = [farAge EXCEPT ![t] = IF shouldMount[t] THEN -1 ELSE @]
       ELSE UNCHANGED <<shouldMount, videoFrame, flap, farAge>>
    /\ UNCHANGED <<shell, catalog, searchQuery, activeAudioId, posterCache,
                   exists, unmountTimerRef, observer, firstRender, taps>>
    /\ VideoSync
    /\ calls' = <<>>

\* TickMs of time pass
Tick ==
    /\ Quiet
    /\ \/ hideTimer > 0
       \/ \E t \in Tiles : \E k \in Slots : timers[t][k].left > 0
       \/ \E t \in Tiles : farAge[t] >= 0 /\ farAge[t] < UNMOUNT_DELAY
    /\ hideTimer' = IF hideTimer > 0 THEN Max(hideTimer - TickMs, 0) ELSE hideTimer
    /\ timers' = [t \in Tiles |-> [k \in Slots |->
                     IF timers[t][k].left > 0
                     THEN [timers[t][k] EXCEPT !.left = Max(@ - TickMs, 0)]
                     ELSE timers[t][k]]]
    /\ farAge' = [t \in Tiles |->
                     IF farAge[t] >= 0 THEN Min(farAge[t] + TickMs, UNMOUNT_DELAY)
                     ELSE farAge[t]]
    /\ UNCHANGED <<open, isVisible, catalog, searchQuery, activeAudioId,
                   posterCache, exists, shouldMount, unmountTimerRef,
                   videoFrame, observer, playback, firstRender, flap, taps>>
    /\ calls' = <<>>

\* -------------------------------------------------------------- video
\* mutant: the capture is stored without the has() check
CapturePosterOverwrite(cache, id, frame, captured) ==
    IF captured THEN [cache EXCEPT ![id] = frame] ELSE cache

\* mutant: a capture is stored under every id
CapturePosterShared(cache, id, frame, captured) ==
    IF cache[id] = NULL /\ captured
    THEN [u \in DOMAIN cache |-> frame]
    ELSE cache

\* mutant: a failed capture stores the frame all the same
CapturePosterAlways(cache, id, frame, captured) ==
    IF cache[id] = NULL THEN [cache EXCEPT ![id] = frame] ELSE cache

\* if (!posterCache.has(id)) { try { ... posterCache.set(id, dataUrl) } catch {} }
CapturePoster(cache, id, frame, captured) ==
    IF cache[id] = NULL /\ captured
    THEN [cache EXCEPT ![id] = frame]
    ELSE cache

\* the mounted <video> reports its first frame: handleLoadedData captures a
\* poster unless the cache has one (capture may throw or have no 2D context:
\* captured = FALSE), then calls play()
LoadedData(t, frame, captured) ==
    /\ Quiet
    /\ exists[t] /\ shouldMount[t] /\ t <= watch
    /\ frame <= frames
    /\ videoFrame[t] = Loading
    /\ videoFrame' = [videoFrame EXCEPT ![t] = frame]
    /\ posterCache' = CapturePoster(posterCache, t, frame, captured)
    /\ plays' = [plays EXCEPT ![t] = @ \cup {"auto"}]
    /\ UNCHANGED <<shell, catalog, searchQuery, activeAudioId, exists,
                   shouldMount, unmountTimerRef, timers, observer, muted,
                   history>>
    /\ calls' = <<>>

\* the mounted <video> fails to load its source (network or decode error):
\* the element keeps its error state, no loadeddata event follows, and the
\* components register no error handler
VideoError(t) ==
    /\ Quiet
    /\ exists[t] /\ shouldMount[t] /\ t <= watch
    /\ videoFrame[t] = Loading
    /\ videoFrame' = [videoFrame EXCEPT ![t] = Failed]
    /\ UNCHANGED <<shell, catalog, searchQuery, activeAudioId, posterCache,
                   exists, shouldMount, unmountTimerRef, timers, observer,
                   playback, history>>
    /\ calls' = <<>>

\* mutant: the rejection handler of the unmuted play request calls play() again
AfterRejectRetry(site) == {site}

\* play requests the rejection handlers make: .catch(() => { }) and
\* .catch(() => { vid.muted = true })
AfterReject(site) == {}

\* mutant: the rejection handler of the muted sync effect is empty
MutedAfterRejectKept(site, was) == was

\* .catch(() => { vid.muted = true }) of the muted sync effect,
\* .catch(() => { }) of handleLoadedData
MutedAfterReject(site, was) == IF site = "unmute" THEN TRUE ELSE was

\* a play() promise of a mounted video settles; only the rejection handler
\* of the muted sync effect does anything: vid.muted = true
PlaySettled(t, site, resolved) ==
    /\ site = "auto" \/ Quiet
    /\ site \in plays[t]
    /\ plays' = [plays EXCEPT ![t] =
                    (@ \ {site}) \cup (IF resolved THEN {} ELSE AfterReject(site))]
    /\ muted' = [muted EXCEPT ![t] =
                    IF resolved THEN @ ELSE MutedAfterReject(site, @)]
    /\ UNCHANGED <<shell, catalog, searchQuery, activeAudioId, posterCache,
                   tileState, observer, history>>
    /\ calls' = <<>>

\* -------------------------------------------------------------- taps
\* MotionLibrary.handleSelect / EffectsLibrary.handleSelect:
\* onSelectVideo?.(v); onClose()
handleSelect(t) ==
    /\ calls' = <<[fn |-> "onSelect", arg |-> t], [fn |-> "onClose", arg |-> NULL]>>
    /\ onClose

\* tap on a tile's body: the outer button's onClick, handleSelect -> onSelect(video)
Select(t) ==
    /\ Quiet
    /\ exists[t]
    /\ handleSelect(t)

\* mutant: the sound button's click bubbles to the tile's body
stopPropagationMissing == FALSE

\* e.stopPropagation() in VideoCard.handleToggleAudio
stopPropagation == TRUE

\* tap on a motion tile's sound button: handleToggleAudio(video.id); the
\* click reaches the tile body's onClick only if it propagates
ToggleAudio(videoId) ==
    /\ Quiet
    /\ gallery = "motion"
    /\ exists[videoId]
    /\ activeAudioId' = NextFocus(activeAudioId, videoId)
    /\ taps' = <<[id |-> videoId, before |-> activeAudioId]>>
    /\ IF stopPropagation
       THEN /\ UNCHANGED <<shell, catalog, searchQuery, posterCache, tileState,
                          observer, firstRender, flap, farAge>>
            /\ VideoSync
            /\ calls' = <<>>
       ELSE /\ calls' = <<[fn |-> "onSelect", arg |-> videoId],
                          [fn |-> "onClose", arg |-> NULL]>>
            /\ IF open
               THEN /\ open' = FALSE
                    /\ hideTimer' = HideTimeout
                    /\ UNCHANGED <<isVisible, catalog, searchQuery, posterCache>>
                    /\ SyncGrid
               ELSE UNCHANGED <<shell, catalog, searchQuery, posterCache,
                                tileState, observer, firstRender, flap, farAge>>
            /\ VideoSync

\* ---------------------------------------------------------------- Next
Next ==
    \/ Open
    \/ Close
    \/ HideTimerFire
    \/ \E t \in Tiles : \E near \in BOOLEAN : Observe(t, near)
    \/ \E t \in Tiles : ObserverCallback(t)
    \/ \E t \in Tiles : \E k \in Slots : TimerFire(t, k)
    \/ Tick
    \/ \E t \in Tiles : \E f \in Frames : \E c \in BOOLEAN : LoadedData(t, f, c)
    \/ \E t \in Tiles : \E site \in {"auto", "unmute"} : \E r \in BOOLEAN :
          PlaySettled(t, site, r)
    \/ \E t \in Tiles : Select(t)
    \/ \E t \in Tiles : ToggleAudio(t)

Spec == Init /\ [][Next]_vars

\* Any catalog the MotionVideo interface allows: entries with or without a
\* poster of their own.
InitAnyCatalog ==
    /\ gallery = "motion"
    /\ count = BatchTiles /\ batch = MaxBatch /\ watch = BatchTiles
    /\ frames = NumFrames
    /\ names = GridNames
    /\ poster \in [Tiles -> BOOLEAN]
    /\ InitState

SpecAnyCatalog == InitAnyCatalog /\ [][Next]_vars

\* Grids as they are created and filtered. A grid of GridTiles tiles, of
\* either gallery, is run as created (no observer report, no video loaded
\* yet); an effects grid of BatchTiles tiles with any display names
\* likewise; an effects grid of BatchTiles tiles with all its events.
SearchConfigs ==
    {[gallery |-> "motion", count |-> GridTiles, watch |-> 0],
     [gallery |-> "effects", count |-> GridTiles, watch |-> 0],
     [gallery |-> "effects", count |-> BatchTiles, watch |-> BatchTiles]}

InitSearch ==
    /\ batch = 1 /\ frames = 1
    /\ \/ \E c \in SearchConfigs :
             /\ gallery = c.gallery /\ count = c.count /\ watch = c.watch
             /\ names = GridNames
       \/ /\ gallery = "effects" /\ count = BatchTiles /\ watch = 0
          /\ names \in [Tiles -> Texts]
    /\ poster = [t \in Tiles |-> FALSE]
    /\ InitState

NextSearch ==
    \/ Open
    \/ Close
    \/ HideTimerFire
    \/ \E text \in Texts : SetSearch(text)
    \/ \E t \in Tiles : \E near \in BOOLEAN : Observe(t, near)
    \/ \E t \in Tiles : ObserverCallback(t)
    \/ \E t \in Tiles : \E k \in Slots : TimerFire(t, k)
    \/ Tick
    \/ \E t \in Tiles : \E f \in Frames : \E c \in BOOLEAN : LoadedData(t, f, c)
    \/ \E t \in Tiles : \E r \in BOOLEAN : PlaySettled(t, "auto", r)
    \/ \E t \in Tiles : Select(t)

SpecSearch == InitSearch /\ [][NextSearch]_vars

\* One-tile grids of the shipped catalogs whose videos may fail to load.
InitLoad ==
    /\ gallery \in Galleries
    /\ count = BatchTiles /\ batch = 1 /\ watch = BatchTiles /\ frames = 1
    /\ poster = [t \in Tiles |-> FALSE]
    /\ names = GridNames
    /\ InitState

NextLoad ==
    \/ Next
    \/ \E t \in Tiles : VideoError(t)

SpecLoad == InitLoad /\ [][NextLoad]_vars

\* The event loop runs every due timeout and every queued observer callback
\* (also when other events are handled first), the browser settles every
\* play() promise, and time passes.
Fairness ==
    /\ WF_vars(Tick)
    /\ SF_vars(HideTimerFire)
    /\ \A t \in 1..NumTiles :
          WF_vars(t \in Tiles /\ \E r \in BOOLEAN : PlaySettled(t, "auto", r))
    /\ \A t \in 1..NumTiles : SF_vars(t \in Tiles /\ ObserverCallback(t))
    /\ \A t \in 1..NumTiles : \A k \in Slots :
          SF_vars(t \in Tiles /\ TimerFire(t, k))

FairSpec == Spec /\ Fairness

FairSpecLoad == SpecLoad /\ Fairness


\* =============================================================== claims
LivePending(t) == {k \in Pending(t) : timers[t][k].live}

\* C1 (debounce cancellation): a mounted tile that received near, far, near,
\* the last near before a release timer fired, is still mounted and has no
\* release timer pending.
C1_DebounceCancellation ==
    \A t \in Tiles :
        exists[t] /\ flap[t] = "nfn" => shouldMount[t] /\ LivePending(t) = {}

\* C2 (debounce completion): a far entry received by a mounted tile and
\* followed by no near entry leads to a detach, and no detach of a tile with
\* such a far entry happens before 500 ms have passed since that entry.
C2_NoEarlyDetach ==
    [][\A t \in Tiles :
          exists[t] /\ exists'[t] /\ shouldMount[t] /\ ~shouldMount'[t]
          => farAge[t] = -1 \/ farAge[t] >= UNMOUNT_DELAY]_vars

C2_EventualDetach ==
    \A t \in 1..NumTiles :
        (t \in Tiles /\ exists[t] /\ shouldMount[t] /\ farAge[t] >= 0)
        ~> (t \in Tiles /\ (~shouldMount[t] \/ farAge[t] = -1))

C2_DebounceCompletion == C2_NoEarlyDetach /\ C2_EventualDetach

\* C3 (mutual exclusion of audio): in every reachable state at most one tile
\* is audio-active.
C3_AudioMutualExclusion ==
    Cardinality({t \in Tiles : isAudioActive(t)}) <= 1

LastTap == taps[Len(taps)]

\* a tile took the focus over from another tile, both with mounted videos
C3_Witness ==
    /\ taps # <<>>
    /\ LastTap.before # NULL /\ LastTap.before # LastTap.id
    /\ isAudioActive(LastTap.id)
    /\ shouldMount[LastTap.id] /\ shouldMount[LastTap.before]

\* C4 (requestFocus): after a tap on tile id the stored focus is null when id
\* held it before the tap and id otherwise, and a different previous holder
\* is no longer audio-active.
C4_RequestFocus ==
    taps # <<>> =>
        /\ activeAudioId = (IF LastTap.before = LastTap.id THEN NULL ELSE LastTap.id)
        /\ (LastTap.before # NULL => ~isAudioActive(LastTap.before))

\* focus moved from its holder to the tapped tile while the gallery is open
C4_Witness ==
    /\ taps # <<>> /\ open
    /\ LastTap.before # NULL /\ LastTap.before # LastTap.id
    /\ activeAudioId = LastTap.id

\* the step is a tap on the sound button that was also tapped last
SecondTap(t) ==
    /\ taps # <<>> /\ LastTap.id = t
    /\ taps' # taps /\ LastTap'.id = t

\* C5 as claimed (toggle semantics): after two consecutive taps on the same
\* tile the stored focus is null, whatever it was before.
C5_Original ==
    [][\A t \in Tiles : SecondTap(t) => activeAudioId' = NULL]_vars

\* C5 amended: two consecutive taps on tile id leave the focus null when id
\* did not hold it before the first tap, and leave it with id when id did.
C5_ToggleTwice ==
    [][\A t \in Tiles :
          SecondTap(t) =>
              activeAudioId' = (IF LastTap.before = t THEN t ELSE NULL)]_vars

\* one tile was tapped twice in a row and the focus is null again
C5_Witness ==
    /\ taps # <<>>
    /\ LastTap.before = LastTap.id
    /\ activeAudioId = NULL

\* C6 (teardown safety): once the grid is destroyed no tile has a live video
\* and no release timer is pending.
C6_TeardownSafety ==
    ~isVisible => \A t \in Tiles : ~shouldMount[t] /\ Pending(t) = {}

\* C7 (write-once poster cache): an entry of the cache never changes and is
\* never removed.
C7_PosterWriteOnce ==
    [][\A t \in Tiles : posterCache[t] # NULL => posterCache'[t] = posterCache[t]]_vars

\* a remounted tile loaded a frame other than the cached one
C7_Witness ==
    \E t \in Tiles :
        /\ posterCache[t] # NULL
        /\ videoFrame[t] \in Frames /\ videoFrame[t] # posterCache[t]

\* C8 as claimed (poster reuse): a tile created while the cache holds its
\* poster shows that poster in its first render and requests no video.
C8_Original ==
    \A t \in Tiles :
        firstRender[t] = "warm" => Render(t) = [el |-> "div", img |-> "cache"]

\* C8 amended: such a tile, unless it is created eager, shows the cached
\* poster in its first render and requests no video; an eager tile requests
\* its video in its first render.
C8_PosterReuse ==
    \A t \in Tiles :
        firstRender[t] = "warm" =>
            IF eagerMount(t) THEN Render(t).el = "video"
            ELSE Render(t) = [el |-> "div", img |-> "cache"]

\* a motion tile of a re-created grid before its first observer callback
C8_Witness ==
    \E t \in Tiles :
        firstRender[t] = "warm" /\ ~eagerMount(t) /\ isIntersecting[t] = "none"

C11_SeparateHitTargets ==
    [][/\ taps' # taps =>
             /\ calls' = <<>>
             /\ activeAudioId' # activeAudioId
       /\ \A t \in Tiles : Select(t) => calls' # <<>>
       /\ calls' # <<>> =>
             /\ \E t \in Tiles :
                   /\ exists[t]
                   /\ calls' = <<[fn |-> "onSelect", arg |-> t],
                                 [fn |-> "onClose", arg |-> NULL]>>
             /\ activeAudioId' = activeAudioId
             /\ taps' = taps]_vars

\* a tile body was tapped while a tile held the audio focus
C11_Witness ==
    /\ calls # <<>> /\ calls[1].fn = "onSelect"
    /\ activeAudioId # NULL /\ activeAudioId # calls[1].arg

NearHandled(t) ==
    /\ exists[t] /\ entries[t] # <<>> /\ Head(entries[t])
    /\ entries'[t] = <<>>

\* C12 as claimed (scenario [A, B, C]): a tile becomes mounted only in a
\* step that handles a near entry for that tile.
C12_Original ==
    [][\A t \in Tiles : ~shouldMount[t] /\ shouldMount'[t] => NearHandled(t)]_vars

\* C12 amended: a tile that is not created eager becomes mounted only in a
\* step that handles a near entry for that tile; an eager tile is mounted
\* when it is created, before any report.
C12_MountOnlyWhenNear ==
    [][\A t \in Tiles :
          ~shouldMount[t] /\ shouldMount'[t] =>
              \/ NearHandled(t)
              \/ ~exists[t] /\ exists'[t] /\ eagerMount(t)']_vars

\* motion grid: one tile is mounted, another was reported far and is not
C12_Witness ==
    /\ gallery = "motion"
    /\ \E a, b \in Tiles :
          /\ shouldMount[a] /\ isIntersecting[a] = "near"
          /\ exists[b] /\ ~shouldMount[b] /\ isIntersecting[b] = "far"
          /\ entries[b] = <<>> /\ posterCache[b] = NULL

TileEvent(t) ==
    \/ \E near \in BOOLEAN : Observe(t, near)
    \/ ObserverCallback(t)
    \/ \E k \in Slots : TimerFire(t, k)
    \/ \E f \in Frames : \E c \in BOOLEAN : LoadedData(t, f, c)
    \/ \E site \in {"auto", "unmute"} : \E r \in BOOLEAN : PlaySettled(t, site, r)

\* C13 (independent tiles): a near or far report, a release-timer fire, a
\* first frame or a settled play request of one tile leaves every other
\* tile's mounted flag, timer handle and pending timers unchanged.
C13_TilesIndependent ==
    [][\A t \in Tiles :
          TileEvent(t) =>
              \A u \in Tiles \ {t} :
                  /\ shouldMount'[u] = shouldMount[u]
                  /\ unmountTimerRef'[u] = unmountTimerRef[u]
                  /\ timers'[u] = timers[u]]_vars

\* two tiles are mounted, one of them with a release timer pending
C13_Witness ==
    \E a, b \in Tiles :
        /\ a # b /\ shouldMount[a] /\ shouldMount[b]
        /\ Pending(a) # {} /\ isIntersecting[b] = "near" /\ entries[b] = <<>>

\* C14 (audible playback follows focus): a mounted video is unmuted only if
\* its tile is the focus holder and the gallery is open.
C14_MutedFollowsFocus ==
    \A t \in Tiles :
        exists[t] /\ shouldMount[t] /\ ~muted[t] =>
            open /\ activeAudioId = t /\ isAudioActive(t)

\* the focus moved between two mounted tiles: the new holder is unmuted, the
\* previous one muted
C14_Witness ==
    /\ taps # <<>>
    /\ LastTap.before # NULL /\ LastTap.before # LastTap.id
    /\ shouldMount[LastTap.id] /\ ~muted[LastTap.id]
    /\ shouldMount[LastTap.before] /\ muted[LastTap.before]

\* C15 (focus changes only by a tap): the stored audio focus changes only in
\* a tap on a sound button.
C15_FocusOnlyByTap ==
    [][activeAudioId' # activeAudioId =>
          /\ taps' # taps
          /\ \E t \in Tiles : ToggleAudio(t)]_vars

\* the release timer unmounted the focus holder and the focus is still stored
C15_Witness ==
    /\ open /\ activeAudioId # NULL
    /\ exists[activeAudioId] /\ ~shouldMount[activeAudioId]
    /\ isIntersecting[activeAudioId] = "far" /\ Pending(activeAudioId) = {}
    /\ posterCache[activeAudioId] # NULL

\* position of a tile among the tiles of the rendered grid, in catalog order
PositionOf(t) == Cardinality({u \in Tiles : u < t /\ exists[u]})

\* C16 (initial state): a tile is created unmounted, with no timer handle
\* and no release timer of its own, unless it is an effects tile at one of
\* the positions 0 to 5 of the rendered list, which is created mounted; no
\* motion tile is created mounted.
C16_InitialState ==
    [][\A t \in Tiles :
          ~exists[t] /\ exists'[t] =>
              /\ shouldMount'[t] =
                    (gallery = "effects" /\ PositionOf(t)' < EAGER_COUNT)
              /\ unmountTimerRef'[t] = NULL
              /\ LivePending(t)' = {}]_vars

\* an effects grid whose tile at position 5 is mounted and whose tile at
\* position 6 is not
C16_Witness ==
    /\ gallery = "effects"
    /\ \E a, b \in Tiles :
          /\ exists[a] /\ PositionOf(a) = EAGER_COUNT - 1 /\ shouldMount[a]
          /\ exists[b] /\ PositionOf(b) = EAGER_COUNT /\ ~shouldMount[b]

\* the name contains the text as a substring, letter case ignored
ContainsIgnoringCase(name, text) ==
    \E off \in 0..(Len(name) - Len(text)) :
        \A i \in 1..Len(text) : LowerChar(name[off + i]) = LowerChar(text[i])

AllBlank(text) == \A i \in 1..Len(text) : text[i] = " "

\* C17 as claimed (search filtering): the rendered effects grid shows exactly
\* the entries whose name contains the search string, case ignored; the
\* empty string shows all.
C17_Original ==
    gallery = "effects" /\ isVisible =>
        \A t \in Tiles :
            exists[t] <=> ContainsIgnoringCase(names[t], searchQuery)

\* C17 amended: while the gallery is open the grid shows, in catalog order,
\* exactly the entries whose name contains the search string, case ignored,
\* and all entries when the string is empty or only blanks; while the
\* gallery is closing it shows all entries whatever the search string.
C17_SearchFilter ==
    gallery = "effects" /\ isVisible =>
        /\ \A t \in Tiles :
              exists[t] <=> \/ ~open
                            \/ AllBlank(searchQuery)
                            \/ ContainsIgnoringCase(names[t], searchQuery)
        /\ \A i, j \in 1..Len(filteredEffects) :
              i < j => filteredEffects[i] < filteredEffects[j]
        /\ \A t \in Tiles :
              exists[t] <=> \E i \in 1..Len(filteredEffects) : filteredEffects[i] = t

\* a lower-case search string keeps the entries named in upper case and
\* drops the others
C17_Witness ==
    /\ gallery = "effects" /\ open /\ isVisible
    /\ searchQuery = <<"a">>
    /\ \E t, u \in Tiles :
          /\ exists[t] /\ names[t] = <<"A">>
          /\ ~exists[u] /\ names[u] = <<"b">>

\* C18 (teardown race): a release-timer callback that runs after its tile
\* component was destroyed changes no tile's mounted flag or video, no cache
\* entry and no focus state.
C18_TeardownRaceNoOp ==
    [][\A t \in Tiles : \A k \in Slots :
          TimerFire(t, k) /\ ~timers[t][k].live =>
              /\ shouldMount' = shouldMount
              /\ videoFrame' = videoFrame
              /\ posterCache' = posterCache
              /\ activeAudioId' = activeAudioId
              /\ muted' = muted]_vars

\* a timeout of a destroyed tile component is due while the tile that
\* replaced it has a mounted video
C18_Witness ==
    \E t \in Tiles : \E k \in Slots :
        /\ timers[t][k].left = 0 /\ ~timers[t][k].live
        /\ exists[t] /\ shouldMount[t] /\ videoFrame[t] \in Frames

\* C19 (capture failure): a first frame whose capture fails adds no cache
\* entry and changes none, leaves the tile mounted and still requests
\* playback.
C19_CaptureFailure ==
    [][\A t \in Tiles : \A f \in Frames :
          LoadedData(t, f, FALSE) =>
              /\ posterCache' = posterCache
              /\ shouldMount' = shouldMount /\ shouldMount'[t]
              /\ "auto" \in plays'[t]]_vars

\* a video delivered its first frame, no poster was stored, and its play
\* request is in flight
C19_Witness ==
    \E t \in Tiles :
        /\ shouldMount[t] /\ videoFrame[t] \in Frames
        /\ posterCache[t] = NULL /\ "auto" \in plays[t]

\* C20 (play rejection): a rejected play request leaves the mounted flags,
\* the timers and their handles, the poster cache and the stored focus
\* unchanged and makes no further play request.
C20_PlayRejection ==
    [][\A t \in Tiles : \A site \in {"auto", "unmute"} :
          PlaySettled(t, site, FALSE) =>
              /\ shouldMount' = shouldMount
              /\ timers' = timers /\ unmountTimerRef' = unmountTimerRef
              /\ posterCache' = posterCache
              /\ activeAudioId' = activeAudioId
              /\ plays' = [plays EXCEPT ![t] = @ \ {site}]]_vars

\* the focus holder's unmuted play request was rejected: its video is muted
\* and no request is in flight
C20_Witness ==
    \E t \in Tiles :
        /\ isAudioActive(t) /\ shouldMount[t]
        /\ muted[t] /\ plays[t] = {}

\* what the placeholder of an unmounted tile shows
PlaceholderImg(t) == IF posterUrl(t) # NULL THEN "cache" ELSE "none"

\* C21 (load failure): a mounted tile whose video failed to load shows what
\* its unmounted placeholder would show; the failure adds no cache entry,
\* requests no playback and leaves the tile mounted, and the failed video
\* is not loaded again.
C21_LoadFailureAbsorbed ==
    [][\A t \in Tiles :
          /\ VideoError(t) =>
                /\ posterCache' = posterCache
                /\ plays' = plays
                /\ shouldMount' = shouldMount
          /\ videoFrame'[t] = Failed => Shown(t)' = PlaceholderImg(t)'
          /\ videoFrame[t] = Failed => videoFrame'[t] \in {Failed, NoVideo}]_vars

\* C22 (timer/mount invariant): a tile has a release timer pending only
\* while it is mounted; a far report handled by an unmounted tile starts no
\* timer.
C22_TimerOnlyWhileMounted ==
    \A t \in Tiles : exists[t] /\ LivePending(t) # {} => shouldMount[t]

\* C23 (timer fire clears the handle): the step in which a tile's release
\* timer fires makes the tile unmounted and its timer handle null.
C23_FireClearsHandle ==
    [][\A t \in Tiles : \A k \in Slots :
          TimerFire(t, k) /\ CallbackApplies(t, k) =>
              ~shouldMount'[t] /\ unmountTimerRef'[t] = NULL]_vars

\* C24 (first frame): a first frame of a mounted video whose id has no cache
\* entry, captured successfully, adds the entry of that id and leaves the
\* mounted flags, the timers and their handles and every other id's entry
\* unchanged; the cache changes in no step other than a first frame of a
\* mounted video.
C24_FirstFrameCapture ==
    [][/\ \A t \in Tiles : \A f \in Frames :
             LoadedData(t, f, TRUE) /\ posterCache[t] = NULL =>
                 /\ posterCache' = [posterCache EXCEPT ![t] = f]
                 /\ shouldMount' = shouldMount
                 /\ timers' = timers /\ unmountTimerRef' = unmountTimerRef
       /\ posterCache' # posterCache =>
             \E t \in Tiles : \E f \in Frames :
                 /\ exists[t] /\ shouldMount[t] /\ videoFrame[t] = Loading
                 /\ LoadedData(t, f, TRUE)]_vars

\* a tile with a release timer pending has just stored its poster while
\* another tile has none
C24_Witness ==
    \E t, u \in Tiles :
        /\ shouldMount[t] /\ videoFrame[t] \in Frames
        /\ posterCache[t] = videoFrame[t] /\ "auto" \in plays[t]
        /\ LivePending(t) # {}
        /\ u # t /\ exists[u] /\ posterCache[u] = NULL

\* C25 (single referenced timer): a tile has at most one release timer
\* pending, and a pending release timer is the one its handle holds.
C25_SingleReferencedTimer ==
    \A t \in Tiles :
        exists[t] =>
            /\ Cardinality(LivePending(t)) <= 1
            /\ \A k \in LivePending(t) : unmountTimerRef[t] = k

\* C26 (mount state tracks proximity): a tile whose last reported
\* visibility change is near, all its reports delivered, is mounted and has
\* no release timer pending.
C26_MountTracksProximity ==
    \A t \in Tiles :
        exists[t] /\ isIntersecting[t] = "near" /\ entries[t] = <<>> =>
            shouldMount[t] /\ LivePending(t) = {}

\* the tile's first observer callback runs and its first entry is far
FirstReportFar(t) ==
    /\ firstRender[t] # "no" /\ entries[t] # <<>> /\ ~Head(entries[t])
    /\ ObserverCallback(t)

\* C30 (release of an eager tile): when the first report of a tile created
\* mounted is far, the tile stays mounted with a release timer of 500 ms
\* pending, unless a near report has arrived as well, in which case it stays
\* mounted with no release timer pending; the tile is unmounted when its
\* release timer fires.
C30_EagerRelease ==
    [][\A t \in Tiles :
          /\ shouldMount[t] /\ FirstReportFar(t) =>
                /\ shouldMount'[t]
                /\ IF Len(entries[t]) > 1
                   THEN LivePending(t)' = {}
                   ELSE \E k \in LivePending(t)' :
                            timers'[t][k].left = UNMOUNT_DELAY
          /\ \A k \in Slots :
                TimerFire(t, k) /\ CallbackApplies(t, k) => ~shouldMount'[t]]_vars

\* C27 (closing masks the audio focus): while open is false no tile is
\* audio-active; a step without a tap on a sound button keeps the stored
\* focus, so a reopened gallery makes the tile that held it audio-active
\* again; and a focus holder's video is unmuted in the step that makes it
\* both mounted and audio-active.
C27_CloseMasksFocus ==
    [][/\ ~open' => \A t \in Tiles : ~isAudioActive(t)'
       /\ taps' = taps => activeAudioId' = activeAudioId
       /\ ~open /\ open' /\ activeAudioId # NULL =>
             isAudioActive(activeAudioId)'
       /\ \A t \in Tiles :
             /\ isAudioActive(t)' /\ shouldMount'[t]
             /\ ~(isAudioActive(t) /\ shouldMount[t])
             => ~muted'[t]]_vars

\* the gallery is closing while a mounted tile holds the stored focus: its
\* video is muted
C27_Witness ==
    /\ ~open /\ isVisible
    /\ activeAudioId # NULL
    /\ shouldMount[activeAudioId] /\ muted[activeAudioId]

\* a closed gallery whose grid is rendered has its hide timer pending and
\* its tiles in place; an open gallery has no hide timer
C28_Rendered ==
    /\ ~open /\ isVisible =>
           /\ hideTimer >= 0
           /\ \A t \in Tiles : exists[t] <=> InCatalog(t)
    /\ open => isVisible /\ hideTimer = -1

\* closing starts the hide timer and keeps the grid; the grid is destroyed
\* only when the timer fires; opening cancels it and keeps the tiles
C28_Steps ==
    [][/\ open /\ ~open' => hideTimer' = HIDE_DELAY /\ isVisible'
       /\ isVisible /\ ~isVisible' =>
             /\ ~open /\ hideTimer = 0
             /\ \A t \in Tiles : ~exists'[t]
       /\ (\E t \in Tiles : exists[t] /\ ~exists'[t]) /\ searchQuery = <<>> =>
             isVisible /\ ~isVisible'
       /\ ~open /\ open' =>
             /\ hideTimer' = -1 /\ isVisible'
             /\ \A t \in Tiles :
                   exists[t] /\ InCatalog(t)' =>
                       /\ exists'[t]
                       /\ shouldMount'[t] = shouldMount[t]
                       /\ timers'[t] = timers[t]]_vars

\* a gallery that stays closed ends with no tile controller
C28_EventuallyDestroyed ==
    ~open ~> (open \/ (~isVisible /\ \A t \in Tiles : ~exists[t]))

\* C28 (hide timer of the shell): after a close the grid stays rendered, its
\* hide timer pending, until that timer fires 300 ms or more later, and is
\* then destroyed, so that a gallery that stays closed ends with no tile
\* controller; opening the gallery before the timer fires cancels it and
\* keeps the tiles and their state.
C28_HideTimer == []C28_Rendered /\ C28_Steps /\ C28_EventuallyDestroyed

\* the hide timer of a closed gallery is due and its grid, with a mounted
\* video, is still rendered
C28_Witness ==
    /\ ~open /\ isVisible /\ hideTimer = 0
    /\ \E t \in Tiles : exists[t] /\ shouldMount[t] /\ videoFrame[t] \in Frames

\* C29 (rejected unmuted play): when the unmuted play request of the focus
\* holder is rejected its video is muted again, the stored focus still
\* names the tile, and no other tile's muted state changes.
C29_RejectedUnmute ==
    [][\A t \in Tiles :
          PlaySettled(t, "unmute", FALSE) =>
              /\ muted'[t]
              /\ activeAudioId = t /\ activeAudioId' = t /\ isAudioActive(t)'
              /\ \A u \in Tiles \ {t} : muted'[u] = muted[u]]_vars

\* the focus holder is mounted and muted with no play request in flight,
\* next to another mounted, muted tile
C29_Witness ==
    \E t, u \in Tiles :
        /\ open /\ activeAudioId = t /\ shouldMount[t]
        /\ muted[t] /\ "unmute" \notin plays[t]
        /\ u # t /\ shouldMount[u] /\ muted[u]

=============================================================================
